---- MODULE Spec2Model ----
(***************************************************************************)
(* A model of the maybe_null crate (src/src/lib.rs).                       *)
(*                                                                         *)
(*   MaybeNull<T>        a copyable Option<NonNull<T>>                      *)
(*   AtomicMaybeNull<T>  an AtomicPtr<T> shared by several threads          *)
(*                                                                         *)
(* Spec     several threads call the operations of one AtomicMaybeNull.    *)
(*          All accesses go to one atomic location, so its executions are  *)
(*          the interleavings of its atomic accesses (coherence).          *)
(* SpecFair Spec with the fairness of the scheduler and of the weak        *)
(*          compare-exchange.                                              *)
(* SpecPtr  one owner constructs, sets, nullifies and queries a MaybeNull  *)
(*          and an AtomicMaybeNull nobody else writes.                     *)
(***************************************************************************)
EXTENDS Integers, Sequences, FiniteSets, TLC

\* ------------------------------------------------------------------ bounds

\* Width of an address in bits: usize arithmetic is modulo 2^AddrBits.
AddrBits == 2
\* Pointers the callers pass in are 0..MaxPtr (0 is the null pointer).
MaxPtr == 2
\* Number of threads sharing the atomic cell.
NThreads == 2
\* Number of calls the threads make in all.
MaxOps == 2

Word == 2 ^ AddrBits
Addrs == 0 .. (Word - 1)
Ptrs == 0 .. MaxPtr
NonNullPtrs == 1 .. MaxPtr
Threads == 1 .. NThreads

\* ------------------------------------------------------ values and helpers

\* core::sync::atomic::Ordering
Orderings == {"SeqCst", "Acquire", "Release", "AcqRel", "Relaxed"}

\* Option<X> is a sequence of length 0 (None) or 1 (Some(x)).
None == << >>
Some(x) == << x >>
IsNone(o) == Len(o) = 0
IsSome(o) == Len(o) = 1

\* Mutant: NonNull::new_unchecked in place of NonNull::new.
NonNullNew_unchecked(raw) == Some(raw)
\* A NonNull<T> is an address other than 0; NonNull::new checks for it.
NonNullNew(raw) == IF raw = 0 THEN None ELSE Some(raw)

\* Mutant: the load rejects the orderings a store rejects.
LoadOrderOk_as_store(order) == order \notin {"Acquire", "AcqRel"}
\* AtomicPtr::load panics with a Release or AcqRel ordering.
LoadOrderOk(order) == order \notin {"Release", "AcqRel"}
\* AtomicPtr::store panics with an Acquire or AcqRel ordering.
StoreOrderOk(order) == order \notin {"Acquire", "AcqRel"}
\* AtomicPtr::swap takes every ordering.
SwapOrderOk(order) == order \in Orderings
\* AtomicPtr::compare_exchange(_weak) takes every success ordering and panics
\* with a Release or AcqRel failure ordering.
CasOrderOk(success, failure) ==
    success \in Orderings /\ failure \notin {"Release", "AcqRel"}

\* The closures the callers hand to fetch_update: FnMut(*mut T) -> Option<*mut T>.
\*   "none"  |_| None
\*   "inc"   |p| Some(p.wrapping_byte_add(1))
\*   "take"  |p| if p.is_null() { None } else { Some(null_mut()) }
Fns == {"none", "inc", "take"}
ApplyF(f, p) ==
    CASE f = "none" -> None
      [] f = "inc"  -> Some((p + 1) % Word)
      [] f = "take" -> IF p = 0 THEN None ELSE Some(0)

\* What a call returned: the operation, its pointer arguments a and b, its
\* closure f, the shape of the result and the address the result carries.
\* For Result<Self, Self> and for swap the address is the one the fresh cell
\* Self::new(..) was constructed with. Two history fields are filled in when
\* the call takes effect: pre, the address the cell held at that instant, and
\* at, the length of hist right after it; tries counts the compare-exchanges
\* of a fetch_update that failed because the cell had changed. own is the
\* address the fresh cell holds now: val until the caller writes to the cell
\* it was handed.
R(op, a, b, f, kind, val) ==
    [op |-> op, a |-> a, b |-> b, f |-> f, kind |-> kind, val |-> val,
     own |-> val, pre |-> 0, at |-> 0, tries |-> 0]
NoRet == R("-", 0, 0, "-", "-", 0)
Panicked(op, a, b, f) == R(op, a, b, f, "Panic", 0)

\* ------------------------------------------------------------------- state

VARIABLES
    cell,    \* AtomicMaybeNull.ptr: the address the shared AtomicPtr holds
    hist,    \* history: the initial value, then every value stored, in order
    pc,      \* per thread: "idle", "fu" (inside fetch_update's loop), "panicked"
    frame,   \* per thread inside fetch_update: closure, prev, where prev was read
    ret,     \* per thread: what its last call returned
    nops,    \* calls made so far
    mn,      \* SpecPtr: the owner's MaybeNull, an Option<NonNull<T>>
    am,      \* SpecPtr: the address held by the owner's AtomicMaybeNull
    plast    \* SpecPtr: the owner's last operation

avars == << cell, hist, pc, frame, ret, nops >>
pvars == << mn, am, plast >>
vars == << cell, hist, pc, frame, ret, nops, mn, am, plast >>

NoFrame == [f |-> "-", prev |-> 0, at |-> 0, tries |-> 0, flip |-> 0]

\* --------------------------------------------- the AtomicPtr primitives

\* AtomicPtr::new(ptr): the cell holds ptr.
AtomicPtr_new(ptr) == ptr
\* Mutant: the load returns the value the cell was constructed with.
AtomicPtr_load_stale(c) == hist[1]
\* AtomicPtr::load: the value read.
AtomicPtr_load(c) == c
\* AtomicPtr::store: the value the cell holds afterwards.
AtomicPtr_store(c, value) == value
\* Mutant: swap returns the value it stored instead of the one it replaced.
AtomicPtr_swap_returns_new(c, other) == [cell |-> other, prev |-> other]
\* Mutant: swap returns the previous value and forgets the store.
AtomicPtr_swap_no_store(c, other) == [cell |-> c, prev |-> c]
\* AtomicPtr::swap: the value the cell holds afterwards, and the one returned.
AtomicPtr_swap(c, other) == [cell |-> other, prev |-> c]
\* Mutant: a failure reports the expected value, not the observed one.
AtomicPtr_compare_exchange_reports_expected(c, current, new) ==
    IF c = current
    THEN [ok |-> TRUE, cell |-> new, prev |-> c]
    ELSE [ok |-> FALSE, cell |-> c, prev |-> current]
\* Mutant: a failure stores new all the same.
AtomicPtr_compare_exchange_stores_on_failure(c, current, new) ==
    IF c = current
    THEN [ok |-> TRUE, cell |-> new, prev |-> c]
    ELSE [ok |-> FALSE, cell |-> new, prev |-> c]
\* Mutant: the strong compare-exchange may give up although the cell holds
\* current (here: it always does).
AtomicPtr_compare_exchange_gives_up(c, current, new) ==
    [ok |-> FALSE, cell |-> c, prev |-> c]
\* AtomicPtr::compare_exchange: installs new iff the cell holds current;
\* either way the result carries the value the cell held.
AtomicPtr_compare_exchange(c, current, new) ==
    IF c = current
    THEN [ok |-> TRUE, cell |-> new, prev |-> c]
    ELSE [ok |-> FALSE, cell |-> c, prev |-> c]
\* AtomicPtr::compare_exchange_weak: as the strong one, or, when spurious,
\* a failure that leaves the cell alone although it holds current.
AtomicPtr_compare_exchange_weak(c, current, new, spurious) ==
    IF spurious
    THEN [ok |-> FALSE, cell |-> c, prev |-> c]
    ELSE AtomicPtr_compare_exchange(c, current, new)

\* ------------------------------------------------ AtomicMaybeNull, shared

\* A call begins: the thread is between calls and the budget allows one more.
CanCall(t) == pc[t] = "idle" /\ nops < MaxOps

\* One atomic access: the cell becomes c, and the history grows when the
\* access was a store.
Access(c, stored) ==
    /\ cell' = c
    /\ hist' = IF stored THEN Append(hist, c) ELSE hist

\* The call of thread t returns r.
Returns(t, r) ==
    /\ ret' = [ret EXCEPT ![t] = [r EXCEPT !.pre = cell, !.at = Len(hist')]]
    /\ pc' = [pc EXCEPT ![t] = IF r.kind = "Panic" THEN "panicked" ELSE "idle"]
    /\ frame' = [frame EXCEPT ![t] = NoFrame]

\* The call panics before it touches the cell.
Panics(t, r) == Access(cell, FALSE) /\ Returns(t, r)

\* get_unchecked(order): self.ptr.load(order)
Atomic_get_unchecked(t, order) ==
    /\ CanCall(t)
    /\ nops' = nops + 1
    /\ IF LoadOrderOk(order)
       THEN /\ Access(cell, FALSE)
            /\ Returns(t, R("get_unchecked", 0, 0, "-", "Raw", AtomicPtr_load(cell)))
       ELSE Panics(t, Panicked("get_unchecked", 0, 0, "-"))
    /\ UNCHANGED pvars

\* get(order): NonNull::new(self.get_unchecked(order))
GetResult(raw) ==
    IF IsSome(NonNullNew(raw))
    THEN R("get", 0, 0, "-", "Some", NonNullNew(raw)[1])
    ELSE R("get", 0, 0, "-", "None", 0)
Atomic_get(t, order) ==
    /\ CanCall(t)
    /\ nops' = nops + 1
    /\ IF LoadOrderOk(order)
       THEN /\ Access(cell, FALSE)
            /\ Returns(t, GetResult(AtomicPtr_load(cell)))
       ELSE Panics(t, Panicked("get", 0, 0, "-"))
    /\ UNCHANGED pvars

\* is_null(order): self.get(order).is_none()
IsNullResult(raw) ==
    R("is_null", 0, 0, "-",
      IF GetResult(raw).kind = "None" THEN "True" ELSE "False", 0)
Atomic_is_null(t, order) ==
    /\ CanCall(t)
    /\ nops' = nops + 1
    /\ IF LoadOrderOk(order)
       THEN /\ Access(cell, FALSE)
            /\ Returns(t, IsNullResult(AtomicPtr_load(cell)))
       ELSE Panics(t, Panicked("is_null", 0, 0, "-"))
    /\ UNCHANGED pvars

\* set(value, order): self.ptr.store(value.as_ptr(), order); value is a NonNull.
Atomic_set(t, value, order) ==
    /\ CanCall(t)
    /\ nops' = nops + 1
    /\ IF StoreOrderOk(order)
       THEN /\ Access(AtomicPtr_store(cell, value), TRUE)
            /\ Returns(t, R("set", value, 0, "-", "Unit", 0))
       ELSE Panics(t, Panicked("set", value, 0, "-"))
    /\ UNCHANGED pvars

\* nullify(order): self.ptr.store(ptr::null_mut(), order)
Atomic_nullify(t, order) ==
    /\ CanCall(t)
    /\ nops' = nops + 1
    /\ IF StoreOrderOk(order)
       THEN /\ Access(AtomicPtr_store(cell, 0), TRUE)
            /\ Returns(t, R("nullify", 0, 0, "-", "Unit", 0))
       ELSE Panics(t, Panicked("nullify", 0, 0, "-"))
    /\ UNCHANGED pvars

\* swap(other, order): Self::new(self.ptr.swap(other, order))
Atomic_swap(t, other, order) ==
    /\ CanCall(t)
    /\ nops' = nops + 1
    /\ SwapOrderOk(order)
    /\ Access(AtomicPtr_swap(cell, other).cell, TRUE)
    /\ Returns(t, R("swap", other, 0, "-", "Cell",
                    AtomicPtr_new(AtomicPtr_swap(cell, other).prev)))
    /\ UNCHANGED pvars

\* The Result<Self, Self> of a compare-exchange x: .map(Self::new).map_err(Self::new)
CasResult(op, current, new, x) ==
    R(op, current, new, "-", IF x.ok THEN "Ok" ELSE "Err", AtomicPtr_new(x.prev))

\* compare_exchange(current, new, success, failure)
Atomic_compare_exchange(t, current, new, success, failure) ==
    /\ CanCall(t)
    /\ nops' = nops + 1
    /\ IF CasOrderOk(success, failure)
       THEN LET x == AtomicPtr_compare_exchange(cell, current, new)
            IN  /\ Access(x.cell, x.ok)
                /\ Returns(t, CasResult("compare_exchange", current, new, x))
       ELSE Panics(t, Panicked("compare_exchange", current, new, "-"))
    /\ UNCHANGED pvars

\* compare_exchange_weak(current, new, success, failure)
Atomic_compare_exchange_weak(t, current, new, success, failure) ==
    /\ CanCall(t)
    /\ nops' = nops + 1
    /\ IF CasOrderOk(success, failure)
       THEN \E spurious \in BOOLEAN :
              LET x == AtomicPtr_compare_exchange_weak(cell, current, new, spurious)
              IN  /\ Access(x.cell, x.ok)
                  /\ Returns(t, CasResult("compare_exchange_weak", current, new, x))
       ELSE Panics(t, Panicked("compare_exchange_weak", current, new, "-"))
    /\ UNCHANGED pvars

\* fetch_update(set_order, fetch_order, f) is AtomicPtr::fetch_update:
\*     let mut prev = self.load(fetch_order);
\*     while let Some(next) = f(prev) {
\*         match self.compare_exchange_weak(prev, next, set_order, fetch_order) {
\*             x @ Ok(_) => return x,
\*             Err(next_prev) => prev = next_prev,
\*         }
\*     }
\*     Err(prev)
\* f touches no shared state, so it is evaluated in the step of the read that
\* produced its argument. A fetch_order the load accepts is one the
\* compare-exchange accepts as its failure ordering, and every set_order is a
\* success ordering: once the load has returned the loop cannot panic.

\* The loop's head with prev just read, after n failed rounds: leave with
\* Err(prev), or go round.
LoopHead(t, f, prev, n) ==
    IF IsNone(ApplyF(f, prev))
    THEN Returns(t, [R("fetch_update", 0, 0, f, "Err", AtomicPtr_new(prev))
                        EXCEPT !.tries = n])
    ELSE /\ frame' = [frame EXCEPT ![t] =
                         [f |-> f, prev |-> prev, at |-> Len(hist),
                          tries |-> n, flip |-> 0]]
         /\ pc' = [pc EXCEPT ![t] = "fu"]
         /\ UNCHANGED ret

\* The call and its first read.
Atomic_fetch_update(t, set_order, fetch_order, f) ==
    /\ CanCall(t)
    /\ nops' = nops + 1
    /\ IF LoadOrderOk(fetch_order)
       THEN /\ Access(cell, FALSE)
            /\ LoopHead(t, f, AtomicPtr_load(cell), 0)
       ELSE Panics(t, Panicked("fetch_update", 0, 0, f))
    /\ UNCHANGED pvars

\* Mutant: the loop stores next without comparing the cell with prev.
LoopCas_blind(t) ==
    [ok |-> TRUE, cell |-> ApplyF(frame[t].f, frame[t].prev)[1],
     prev |-> frame[t].prev]
\* The loop's compare_exchange_weak(prev, next, ..), not spurious.
LoopCas(t) ==
    AtomicPtr_compare_exchange_weak(
        cell, frame[t].prev, ApplyF(frame[t].f, frame[t].prev)[1], FALSE)

\* It succeeds: return Ok(prev).
fetch_update_ok(t) ==
    /\ pc[t] = "fu"
    /\ LoopCas(t).ok
    /\ Access(LoopCas(t).cell, TRUE)
    /\ Returns(t, [R("fetch_update", 0, ApplyF(frame[t].f, frame[t].prev)[1],
                     frame[t].f, "Ok", AtomicPtr_new(LoopCas(t).prev))
                      EXCEPT !.tries = frame[t].tries])
    /\ UNCHANGED << nops, pvars >>

\* Mutant: the failed round forgets prev = next_prev and goes round with
\* the prev it had.
fetch_update_retry_keeps_prev(t) ==
    /\ pc[t] = "fu"
    /\ ~LoopCas(t).ok
    /\ Access(LoopCas(t).cell, FALSE)
    /\ LoopHead(t, frame[t].f, frame[t].prev, frame[t].tries)
    /\ UNCHANGED << nops, pvars >>

\* It fails because the cell does not hold prev: prev = next_prev.
fetch_update_retry(t) ==
    /\ pc[t] = "fu"
    /\ ~LoopCas(t).ok
    /\ Access(LoopCas(t).cell, FALSE)
    /\ LoopHead(t, frame[t].f, LoopCas(t).prev, frame[t].tries + 1)
    /\ UNCHANGED << nops, pvars >>

\* It fails spuriously: the cell holds prev, which is what the failure
\* reports, and the loop goes round with it (flip tells the rounds apart).
fetch_update_spurious(t) ==
    /\ pc[t] = "fu"
    /\ cell = frame[t].prev
    /\ LET x == AtomicPtr_compare_exchange_weak(
                    cell, frame[t].prev, ApplyF(frame[t].f, frame[t].prev)[1], TRUE)
       IN  /\ Access(x.cell, x.ok)
           /\ frame' = [frame EXCEPT ![t] =
                           [@ EXCEPT !.prev = x.prev, !.flip = 1 - @]]
    /\ UNCHANGED << pc, ret, nops, pvars >>

\* The calls that hand back a fresh cell, Self::new(..): swap, and the Ok and
\* Err of compare_exchange, compare_exchange_weak and fetch_update.
Cells == {"Cell", "Ok", "Err"}
\* Thread t holds the cell its last call returned.
Holds(t) == ret[t].kind \in Cells

\* Mutant: the cell handed back is the source cell itself.
OwnStore_aliased(t, value) ==
    /\ Access(AtomicPtr_store(cell, value), TRUE)
    /\ ret' = [ret EXCEPT ![t].own = AtomicPtr_store(@, value)]
\* A store to the cell thread t holds: it is a cell of its own, constructed
\* by Self::new, and the shared one is not touched.
OwnStore(t, value) ==
    /\ Access(cell, FALSE)
    /\ ret' = [ret EXCEPT ![t].own = AtomicPtr_store(@, value)]

\* r.set(value, order) on the cell r thread t was handed
Own_set(t, value, order) ==
    /\ CanCall(t)
    /\ Holds(t)
    /\ nops' = nops + 1
    /\ IF StoreOrderOk(order)
       THEN OwnStore(t, value) /\ UNCHANGED << pc, frame >>
       ELSE Panics(t, Panicked("set", value, 0, "-"))
    /\ UNCHANGED pvars

\* r.nullify(order) on the cell r thread t was handed
Own_nullify(t, order) ==
    /\ CanCall(t)
    /\ Holds(t)
    /\ nops' = nops + 1
    /\ IF StoreOrderOk(order)
       THEN OwnStore(t, 0) /\ UNCHANGED << pc, frame >>
       ELSE Panics(t, Panicked("nullify", 0, 0, "-"))
    /\ UNCHANGED pvars

\* AtomicMaybeNull::new(ptr): Self { ptr: AtomicPtr::new(ptr) }
Atomic_new(ptr) == AtomicPtr_new(ptr)

Init ==
    /\ cell \in {Atomic_new(p) : p \in Ptrs}
    /\ hist = << cell >>
    /\ pc = [t \in Threads |-> "idle"]
    /\ frame = [t \in Threads |-> NoFrame]
    /\ ret = [t \in Threads |-> NoRet]
    /\ nops = 0
    /\ mn = [ptr |-> None]
    /\ am = 0
    /\ plast = [obj |-> "-", op |-> "-", arg |-> 0, kind |-> "-", val |-> 0,
                ty |-> "u8", wasty |-> "u8", was |-> 0, rep |-> FALSE,
                orig |-> 0, origty |-> "u8"]

Next ==
    \E t \in Threads :
        \/ \E o \in Orderings : Atomic_is_null(t, o)
        \/ \E o \in Orderings : Atomic_get(t, o)
        \/ \E o \in Orderings : Atomic_get_unchecked(t, o)
        \/ \E v \in NonNullPtrs, o \in Orderings : Atomic_set(t, v, o)
        \/ \E o \in Orderings : Atomic_nullify(t, o)
        \/ \E p \in Ptrs, o \in Orderings : Atomic_swap(t, p, o)
        \/ \E c \in Ptrs, n \in Ptrs, s \in Orderings, f \in Orderings :
               Atomic_compare_exchange(t, c, n, s, f)
        \/ \E c \in Ptrs, n \in Ptrs, s \in Orderings, f \in Orderings :
               Atomic_compare_exchange_weak(t, c, n, s, f)
        \/ \E s \in Orderings, o \in Orderings, f \in Fns :
               Atomic_fetch_update(t, s, o, f)
        \/ fetch_update_ok(t)
        \/ fetch_update_retry(t)
        \/ fetch_update_spurious(t)
        \/ \E v \in NonNullPtrs, o \in Orderings : Own_set(t, v, o)
        \/ \E o \in Orderings : Own_nullify(t, o)

Spec == Init /\ [][Next]_vars

\* The scheduler runs every thread that can take a step, and a weak
\* compare-exchange that could succeed does not fail spuriously for ever.
Fairness ==
    \A t \in Threads :
        /\ WF_vars(fetch_update_ok(t))
        /\ WF_vars(fetch_update_retry(t))

SpecFair == Spec /\ Fairness

\* ---------------------------------------------------------------- MaybeNull

\* ptr::with_exposed_provenance_mut(addr), ptr::without_provenance_mut(addr):
\* the pointer whose address is addr (provenance is not modelled).
PtrFromAddr(addr) == addr
\* ptr::null_mut()
null_mut == PtrFromAddr(0)

\* wrap(ptr): Self { ptr }
wrap(ptr) == [ptr |-> ptr]
\* new(ptr): Self::wrap(NonNull::new(ptr))
MaybeNull_new(ptr) == wrap(NonNullNew(ptr))
\* from_non_null(ptr): Self::wrap(Some(ptr))
MaybeNull_from_non_null(ptr) == wrap(Some(ptr))
\* with_exposed_provenance(addr): Self::new(ptr::with_exposed_provenance_mut(addr))
MaybeNull_with_exposed_provenance(addr) == MaybeNull_new(PtrFromAddr(addr))
\* without_provenance(addr): Self::new(ptr::without_provenance_mut(addr))
MaybeNull_without_provenance(addr) == MaybeNull_new(PtrFromAddr(addr))
\* null(): Self::new(ptr::null_mut())
MaybeNull_null == MaybeNull_new(null_mut)

\* self.ptr.map_or(default, f) with f the address of the NonNull
map_or(o, default) == IF IsSome(o) THEN o[1] ELSE default

\* get(self): self.ptr
MaybeNull_get(p) == p.ptr
\* is_null(self): self.get().is_none()
MaybeNull_is_null(p) == IsNone(MaybeNull_get(p))
\* get_unchecked(self): self.ptr.map_or(ptr::null_mut(), |ptr| ptr.as_ptr())
MaybeNull_get_unchecked(p) == map_or(p.ptr, null_mut)
\* addr(self): self.ptr.map_or(0, |ptr| ptr.addr().get())
MaybeNull_addr(p) == map_or(p.ptr, 0)
\* Mutant: set assigns to a copy of self.
MaybeNull_set_on_copy(p, value) == p
\* Mutant: set moves the pointer by value's address instead of replacing it.
MaybeNull_set_offsets(p, value) ==
    wrap(NonNullNew((map_or(p.ptr, 0) + value) % Word))
\* set(&mut self, value): self.ptr = Some(value)
MaybeNull_set(p, value) == [p EXCEPT !.ptr = Some(value)]
\* nullify(&mut self): *self = Self::null()
MaybeNull_nullify(p) == MaybeNull_null

\* The pointee types of the model and their sizes in bytes (size_of::<T>()).
Types == {"u8", "u16"}
size_of(ty) == IF ty = "u16" THEN 2 ELSE 1

\* Mutant: the cast rounds the address down to an even one.
ptr_cast_aligned(ptr) == ptr - (ptr % 2)
\* <*mut T>::cast::<U>: the same address, another pointee type.
ptr_cast(ptr) == ptr
\* Mutant: wrapping_byte_add saturates at the highest address.
ptr_wrapping_byte_add_saturating(ptr, count) ==
    IF ptr + count > Word - 1 THEN Word - 1 ELSE ptr + count
\* <*mut T>::wrapping_byte_add(count): the address plus count, modulo 2^w.
ptr_wrapping_byte_add(ptr, count) == (ptr + count) % Word
\* <*mut T>::wrapping_byte_sub(count): the address minus count, modulo 2^w.
ptr_wrapping_byte_sub(ptr, count) == (ptr + Word - (count % Word)) % Word
\* <*mut T>::wrapping_add(count): count elements of size bytes each.
ptr_wrapping_add(ptr, count, size) ==
    ptr_wrapping_byte_add(ptr, (count * size) % Word)
\* <*mut T>::wrapping_sub(count)
ptr_wrapping_sub(ptr, count, size) ==
    ptr_wrapping_byte_sub(ptr, (count * size) % Word)

\* The closures the methods hand to map: FnOnce(*mut T) -> *mut U.
PtrFn(fn, count, size) == [fn |-> fn, count |-> count, size |-> size]
ApplyPtrFn(f, ptr) ==
    CASE f.fn = "cast"              -> ptr_cast(ptr)
      [] f.fn = "wrapping_add"      -> ptr_wrapping_add(ptr, f.count, f.size)
      [] f.fn = "wrapping_byte_add" -> ptr_wrapping_byte_add(ptr, f.count)
      [] f.fn = "wrapping_sub"      -> ptr_wrapping_sub(ptr, f.count, f.size)
      [] f.fn = "wrapping_byte_sub" -> ptr_wrapping_byte_sub(ptr, f.count)

\* Mutant: map goes through the Option and keeps an absent pointer absent
\* (self.ptr.map(f) with the result taken to be non-null).
MaybeNull_map_of_option(p, f) ==
    IF IsNone(p.ptr) THEN p ELSE wrap(Some(ApplyPtrFn(f, p.ptr[1])))
\* map(self, f): MaybeNull::new(f(self.ptr.map_or(ptr::null_mut(), |ptr| ptr.as_ptr())))
MaybeNull_map(p, f) == MaybeNull_new(ApplyPtrFn(f, map_or(p.ptr, null_mut)))
\* cast::<U>(self): self.map(|ptr| ptr.cast::<U>())
MaybeNull_cast(p) == MaybeNull_map(p, PtrFn("cast", 0, 0))
\* wrapping_add(self, count): self.map(|ptr| ptr.wrapping_add(count)), T of size bytes
MaybeNull_wrapping_add(p, count, size) ==
    MaybeNull_map(p, PtrFn("wrapping_add", count, size))
\* wrapping_byte_add(self, count): self.map(|ptr| ptr.wrapping_byte_add(count))
MaybeNull_wrapping_byte_add(p, count) ==
    MaybeNull_map(p, PtrFn("wrapping_byte_add", count, 0))
\* wrapping_sub(self, count): self.map(|ptr| ptr.wrapping_sub(count))
MaybeNull_wrapping_sub(p, count, size) ==
    MaybeNull_map(p, PtrFn("wrapping_sub", count, size))
\* wrapping_byte_sub(self, count): self.map(|ptr| ptr.wrapping_byte_sub(count))
MaybeNull_wrapping_byte_sub(p, count) ==
    MaybeNull_map(p, PtrFn("wrapping_byte_sub", count, 0))

\* core::cmp::Ordering of two addresses.
cmp_addr(a, b) == IF a < b THEN "Less" ELSE IF a = b THEN "Equal" ELSE "Greater"
\* Mutant: the ordering of Option with None last.
Option_cmp_none_last(o1, o2) ==
    IF IsNone(o1) THEN (IF IsNone(o2) THEN "Equal" ELSE "Greater")
    ELSE IF IsNone(o2) THEN "Less" ELSE cmp_addr(o1[1], o2[1])
\* Ord for Option<NonNull<T>>: None is less than every Some, two Some compare
\* as the addresses of their pointers.
Option_cmp(o1, o2) ==
    IF IsNone(o1) THEN (IF IsNone(o2) THEN "Equal" ELSE "Less")
    ELSE IF IsNone(o2) THEN "Greater" ELSE cmp_addr(o1[1], o2[1])
\* PartialEq for Option<NonNull<T>>: both None, or both Some of one address.
Option_eq(o1, o2) ==
    IF IsNone(o1) THEN IsNone(o2) ELSE IsSome(o2) /\ o1[1] = o2[1]
\* eq(&self, other): PartialEq::eq(&self.ptr, &other.ptr)
MaybeNull_eq(p, q) == Option_eq(p.ptr, q.ptr)
\* cmp(&self, other): Ord::cmp(&self.ptr, &other.ptr)
MaybeNull_cmp(p, q) == Option_cmp(p.ptr, q.ptr)
\* partial_cmp(&self, other): Some(self.cmp(other))
MaybeNull_partial_cmp(p, q) == Some(MaybeNull_cmp(p, q))

\* The AtomicMaybeNull constructors: Self::new(..) of the pointer.
Atomic_from_non_null(ptr) == AtomicPtr_new(ptr)
Atomic_with_exposed_provenance(addr) == Atomic_new(PtrFromAddr(addr))
Atomic_without_provenance(addr) == Atomic_new(PtrFromAddr(addr))
Atomic_null == Atomic_new(null_mut)

\* ------------------------------------------------- the owner of SpecPtr

\* The owner's last operation: the object ("mn" or "am"), the operation, its
\* argument, and the shape and address of what it returned. With it are kept:
\* ty, the pointee type T of the owner's MaybeNull<T>, and wasty, the one it
\* had before the operation; was, the object as the operation found it (a
\* MaybeNull for "mn", the address held for "am"); rep, whether the operation
\* before it was the same call with the same argument; orig and origty, the
\* MaybeNull and its type before the first of two casts in a row (was and
\* wasty for any other operation).
Op(obj, op, arg, kind, val) ==
    [obj |-> obj, op |-> op, arg |-> arg, kind |-> kind, val |-> val,
     ty |-> plast.ty, wasty |-> plast.ty,
     was |-> IF obj = "mn" THEN mn ELSE am,
     rep |-> /\ plast.obj = obj /\ plast.op = op /\ plast.arg = arg
             /\ plast.kind # "Panic",
     orig |-> IF obj = "mn" THEN mn ELSE am,
     origty |-> plast.ty]
NoOp ==
    [obj |-> "-", op |-> "-", arg |-> 0, kind |-> "-", val |-> 0,
     ty |-> "u8", wasty |-> "u8", was |-> 0, rep |-> FALSE,
     orig |-> 0, origty |-> "u8"]

\* A panic ends the owner.
Alive == plast.kind # "Panic"

\* p = MaybeNull::<ctor>(arg)
P_new(a) ==
    /\ Alive
    /\ mn' = MaybeNull_new(a)
    /\ plast' = Op("mn", "new", a, "Unit", 0)
    /\ UNCHANGED << am, avars >>
P_with_exposed_provenance(a) ==
    /\ Alive
    /\ mn' = MaybeNull_with_exposed_provenance(a)
    /\ plast' = Op("mn", "with_exposed_provenance", a, "Unit", 0)
    /\ UNCHANGED << am, avars >>
P_without_provenance(a) ==
    /\ Alive
    /\ mn' = MaybeNull_without_provenance(a)
    /\ plast' = Op("mn", "without_provenance", a, "Unit", 0)
    /\ UNCHANGED << am, avars >>
P_null ==
    /\ Alive
    /\ mn' = MaybeNull_null
    /\ plast' = Op("mn", "null", 0, "Unit", 0)
    /\ UNCHANGED << am, avars >>
P_from_non_null(h) ==
    /\ Alive
    /\ mn' = MaybeNull_from_non_null(h)
    /\ plast' = Op("mn", "from_non_null", h, "Unit", 0)
    /\ UNCHANGED << am, avars >>
\* p.set(h), p.nullify()
P_set(h) ==
    /\ Alive
    /\ mn' = MaybeNull_set(mn, h)
    /\ plast' = Op("mn", "set", h, "Unit", 0)
    /\ UNCHANGED << am, avars >>
P_nullify ==
    /\ Alive
    /\ mn' = MaybeNull_nullify(mn)
    /\ plast' = Op("mn", "nullify", 0, "Unit", 0)
    /\ UNCHANGED << am, avars >>

\* p = p.cast::<U>(): the owner's pointer becomes a MaybeNull<U>.
P_cast(U) ==
    /\ Alive
    /\ mn' = MaybeNull_cast(mn)
    /\ plast' = [Op("mn", "cast", 0, "Unit", 0) EXCEPT
                    !.ty = U,
                    !.orig = IF plast.op = "cast" THEN plast.was ELSE mn,
                    !.origty = IF plast.op = "cast" THEN plast.wasty ELSE plast.ty]
    /\ UNCHANGED << am, avars >>
\* p = p.wrapping_add(n), p.wrapping_byte_add(n), p.wrapping_sub(n),
\* p.wrapping_byte_sub(n)
P_wrapping_add(n) ==
    /\ Alive
    /\ mn' = MaybeNull_wrapping_add(mn, n, size_of(plast.ty))
    /\ plast' = Op("mn", "wrapping_add", n, "Unit", 0)
    /\ UNCHANGED << am, avars >>
P_wrapping_byte_add(n) ==
    /\ Alive
    /\ mn' = MaybeNull_wrapping_byte_add(mn, n)
    /\ plast' = Op("mn", "wrapping_byte_add", n, "Unit", 0)
    /\ UNCHANGED << am, avars >>
P_wrapping_sub(n) ==
    /\ Alive
    /\ mn' = MaybeNull_wrapping_sub(mn, n, size_of(plast.ty))
    /\ plast' = Op("mn", "wrapping_sub", n, "Unit", 0)
    /\ UNCHANGED << am, avars >>
P_wrapping_byte_sub(n) ==
    /\ Alive
    /\ mn' = MaybeNull_wrapping_byte_sub(mn, n)
    /\ plast' = Op("mn", "wrapping_byte_sub", n, "Unit", 0)
    /\ UNCHANGED << am, avars >>
\* p == q and p.cmp(&q), with q = MaybeNull::new(a)
P_eq(a) ==
    /\ Alive
    /\ mn' = mn
    /\ plast' = Op("mn", "eq", a,
                   IF MaybeNull_eq(mn, MaybeNull_new(a)) THEN "True" ELSE "False", 0)
    /\ UNCHANGED << am, avars >>
P_cmp(a) ==
    /\ Alive
    /\ mn' = mn
    /\ plast' = Op("mn", "cmp", a, MaybeNull_cmp(mn, MaybeNull_new(a)), 0)
    /\ UNCHANGED << am, avars >>

\* a = AtomicMaybeNull::<ctor>(arg)
A_new(a) ==
    /\ Alive
    /\ am' = Atomic_new(a)
    /\ plast' = Op("am", "new", a, "Unit", 0)
    /\ UNCHANGED << mn, avars >>
A_with_exposed_provenance(a) ==
    /\ Alive
    /\ am' = Atomic_with_exposed_provenance(a)
    /\ plast' = Op("am", "with_exposed_provenance", a, "Unit", 0)
    /\ UNCHANGED << mn, avars >>
A_without_provenance(a) ==
    /\ Alive
    /\ am' = Atomic_without_provenance(a)
    /\ plast' = Op("am", "without_provenance", a, "Unit", 0)
    /\ UNCHANGED << mn, avars >>
A_null ==
    /\ Alive
    /\ am' = Atomic_null
    /\ plast' = Op("am", "null", 0, "Unit", 0)
    /\ UNCHANGED << mn, avars >>
A_from_non_null(h) ==
    /\ Alive
    /\ am' = Atomic_from_non_null(h)
    /\ plast' = Op("am", "from_non_null", h, "Unit", 0)
    /\ UNCHANGED << mn, avars >>
\* a.set(h, order), a.nullify(order)
A_set(h, order) ==
    /\ Alive
    /\ IF StoreOrderOk(order)
       THEN /\ am' = AtomicPtr_store(am, h)
            /\ plast' = Op("am", "set", h, "Unit", 0)
       ELSE /\ am' = am
            /\ plast' = Op("am", "set", h, "Panic", 0)
    /\ UNCHANGED << mn, avars >>
A_nullify(order) ==
    /\ Alive
    /\ IF StoreOrderOk(order)
       THEN /\ am' = AtomicPtr_store(am, null_mut)
            /\ plast' = Op("am", "nullify", 0, "Unit", 0)
       ELSE /\ am' = am
            /\ plast' = Op("am", "nullify", 0, "Panic", 0)
    /\ UNCHANGED << mn, avars >>
\* a.is_null(order), a.get(order), a.get_unchecked(order)
A_query(op, order) ==
    /\ Alive
    /\ am' = am
    /\ plast' =
         IF LoadOrderOk(order)
         THEN CASE op = "is_null" ->
                     Op("am", op, 0, IsNullResult(AtomicPtr_load(am)).kind, 0)
                [] op = "get" ->
                     Op("am", op, 0, GetResult(AtomicPtr_load(am)).kind,
                        GetResult(AtomicPtr_load(am)).val)
                [] op = "get_unchecked" ->
                     Op("am", op, 0, "Raw", AtomicPtr_load(am))
         ELSE Op("am", op, 0, "Panic", 0)
    /\ UNCHANGED << mn, avars >>
A_is_null(order) == A_query("is_null", order)
A_get(order) == A_query("get", order)
A_get_unchecked(order) == A_query("get_unchecked", order)

InitPtr ==
    /\ mn = MaybeNull_null
    /\ am = Atomic_null
    /\ plast = NoOp
    /\ cell = 0
    /\ hist = << 0 >>
    /\ pc = [t \in Threads |-> "idle"]
    /\ frame = [t \in Threads |-> NoFrame]
    /\ ret = [t \in Threads |-> NoRet]
    /\ nops = 0

NextPtr ==
    \/ \E a \in Addrs : P_new(a)
    \/ \E a \in Addrs : P_with_exposed_provenance(a)
    \/ \E a \in Addrs : P_without_provenance(a)
    \/ P_null
    \/ \E h \in Addrs \ {0} : P_from_non_null(h)
    \/ \E h \in Addrs \ {0} : P_set(h)
    \/ P_nullify
    \/ \E U \in Types : P_cast(U)
    \/ \E n \in Addrs : P_wrapping_add(n)
    \/ \E n \in Addrs : P_wrapping_byte_add(n)
    \/ \E n \in Addrs : P_wrapping_sub(n)
    \/ \E n \in Addrs : P_wrapping_byte_sub(n)
    \/ \E a \in Addrs : P_eq(a)
    \/ \E a \in Addrs : P_cmp(a)
    \/ \E a \in Addrs : A_new(a)
    \/ \E a \in Addrs : A_with_exposed_provenance(a)
    \/ \E a \in Addrs : A_without_provenance(a)
    \/ A_null
    \/ \E h \in Addrs \ {0} : A_from_non_null(h)
    \/ \E h \in Addrs \ {0}, o \in Orderings : A_set(h, o)
    \/ \E o \in Orderings : A_nullify(o)
    \/ \E o \in Orderings : A_is_null(o)
    \/ \E o \in Orderings : A_get(o)
    \/ \E o \in Orderings : A_get_unchecked(o)

SpecPtr == InitPtr /\ [][NextPtr]_vars

\* ================================================================== claims

\* The last entry and the entries of a history.
Last(s) == s[Len(s)]
Range(s) == {s[i] : i \in 1 .. Len(s)}
\* The results that carry an address.
Carries == {"Raw", "Some", "Cell", "Ok", "Err"}
\* A call of op by thread t has returned (it did not panic).
Returned(t, op) == ret[t].op = op /\ ret[t].kind \notin {"-", "Panic"}
\* Nothing has been stored since the call of thread t took effect.
NoWriteSince(t) == ret[t].at = Len(hist)
\* The reads of the cell's address.
Reads == {"get_unchecked", "get"}

\* ------------------------------------------------------------------- C1
\* The two calls of the race: the cell started null, two calls were made
\* in all, one by t1 and one by t2, each a strong compare_exchange that
\* expected null and offered its own non-null pointer.
RaceCalls(t1, t2) ==
    /\ t1 # t2
    /\ hist[1] = 0
    /\ nops = 2
    /\ Returned(t1, "compare_exchange") /\ Returned(t2, "compare_exchange")
    /\ ret[t1].a = 0 /\ ret[t2].a = 0
    /\ ret[t1].b # 0 /\ ret[t2].b # 0 /\ ret[t1].b # ret[t2].b

\* C1: two threads race compare_exchange(null, p1) and compare_exchange(null,
\* p2), p1 # p2 non-null, on a null cell nobody else writes: in every
\* interleaving exactly one call returns Ok, the other returns Err carrying
\* the winner's pointer, and the cell ends holding the winner's pointer.
C1_RaceHasOneWinner ==
    \A t1 \in Threads, t2 \in Threads :
        RaceCalls(t1, t2) =>
            /\ (ret[t1].kind = "Ok") # (ret[t2].kind = "Ok")
            /\ ret[t1].kind = "Ok" =>
                   /\ ret[t2].kind = "Err"
                   /\ ret[t2].val = ret[t1].b
                   /\ cell = ret[t1].b

\* C1 witness: the race has been run, t1 won and t2 lost.
C1_Witness ==
    \E t1 \in Threads, t2 \in Threads :
        /\ RaceCalls(t1, t2)
        /\ ret[t1].kind = "Ok"
        /\ ret[t2].kind = "Err"

\* ------------------------------------------------------------------- C2
\* C2: a strong compare_exchange(current, new) that found X in the cell
\* returns Ok carrying X when current = X, and then the cell holds new and
\* a read made before any later store yields new; it returns Err carrying X
\* when current # X, and then the cell still holds X.
C2_CompareExchange ==
    \A t \in Threads :
        Returned(t, "compare_exchange") =>
            IF ret[t].a = ret[t].pre
            THEN /\ ret[t].kind = "Ok"
                 /\ ret[t].val = ret[t].pre
                 /\ NoWriteSince(t) => cell = ret[t].b
                 /\ \A u \in Threads \ {t} :
                        (/\ ret[u].op \in Reads
                         /\ ret[u].kind \in Carries
                         /\ ret[u].at = ret[t].at) => ret[u].val = ret[t].b
            ELSE /\ ret[t].kind = "Err"
                 /\ ret[t].val = ret[t].pre
                 /\ NoWriteSince(t) => cell = ret[t].pre

\* C2 witness: a compare_exchange replaced X by another pointer Y and a
\* read by another thread then returned Y.
C2_Witness ==
    \E t \in Threads, u \in Threads :
        /\ Returned(t, "compare_exchange")
        /\ ret[t].kind = "Ok"
        /\ ret[t].b # ret[t].pre
        /\ ret[u].op = "get_unchecked"
        /\ ret[u].kind = "Raw"
        /\ ret[u].at = ret[t].at
        /\ ret[u].val = ret[t].b

\* ------------------------------------------------------------------- C3
\* C3: every safe operation of AtomicMaybeNull that takes an ordering
\* returns normally, whatever orderings it is given: no call panics.
C3_NoCallPanics ==
    \A t \in Threads : ret[t].kind # "Panic"

\* ------------------------------------------------------------------- C4
\* The step of a fetch_update call whose closure always returns None.
FetchUpdateNone(t, set_order, fetch_order) ==
    Atomic_fetch_update(t, set_order, fetch_order, "none")
\* It reports failure with the cell's value and leaves the cell alone.
FailsWithCurrent(t) ==
    /\ ret'[t].op = "fetch_update"
    /\ ret'[t].kind = "Err"
    /\ ret'[t].val = cell
    /\ cell' = cell
    /\ hist' = hist

C5_Swap ==
    \A t \in Threads :
        Returned(t, "swap") =>
            /\ ret[t].kind = "Cell"
            /\ ret[t].val = ret[t].pre
            /\ ret[t].at >= 2
            /\ hist[ret[t].at] = ret[t].a
            /\ hist[ret[t].at - 1] = ret[t].val
            /\ NoWriteSince(t) => cell = ret[t].a

\* C5 witness: a swap replaced p1 by a different p2 and returned p1.
C5_Witness ==
    \E t \in Threads :
        /\ Returned(t, "swap")
        /\ ret[t].pre # ret[t].a
        /\ ret[t].val = ret[t].pre
        /\ NoWriteSince(t)
        /\ cell = ret[t].a

\* ------------------------------------------------------------------- C6
\* The calls that store unconditionally, and what they store.
Stores == {"set", "nullify", "swap"}
Stored(t) == IF ret[t].op = "nullify" THEN 0 ELSE ret[t].a

\* C6: every operation takes effect in one step. The cell always holds the
\* last value stored; a set, nullify or swap adds exactly its argument to the
\* history; every address a call returns is the initial value or a stored
\* one; a swap returns the entry right before its own, and two swaps never
\* return the same entry.
C6_Linearizable ==
    /\ cell = Last(hist)
    /\ \A t \in Threads :
          /\ ret[t].kind \in Carries => ret[t].val \in Range(hist)
          /\ ret[t].kind \in Carries => ret[t].val = ret[t].pre
          /\ Returned(t, ret[t].op) /\ ret[t].op \in Stores =>
                 /\ ret[t].at >= 2
                 /\ hist[ret[t].at] = Stored(t)
                 /\ hist[ret[t].at - 1] = ret[t].pre
    /\ \A t \in Threads, u \in Threads :
          (t # u /\ Returned(t, "swap") /\ Returned(u, "swap")) =>
              ret[t].at # ret[u].at

\* C6 witness: two swaps by two threads, the second returning what the
\* first stored.
C6_Witness ==
    \E t \in Threads, u \in Threads :
        /\ t # u
        /\ Returned(t, "swap") /\ Returned(u, "swap")
        /\ ret[u].at = ret[t].at + 1
        /\ ret[u].val = ret[t].a
        /\ ret[t].val # ret[u].val

\* ------------------------------------------------------------------- C7
\* C7: the strong compare_exchange never fails spuriously: the value its Err
\* carries differs from the expected one. A failing compare_exchange_weak,
\* spurious or not, leaves the cell as it found it.
C7_StrongNeverSpurious ==
    \A t \in Threads :
        /\ (Returned(t, "compare_exchange") /\ ret[t].kind = "Err") =>
               ret[t].val # ret[t].a
        /\ (Returned(t, "compare_exchange_weak") /\ ret[t].kind = "Err") =>
               /\ ret[t].val = ret[t].pre
               /\ NoWriteSince(t) => cell = ret[t].pre
               /\ hist[ret[t].at] = ret[t].pre

\* C7 witness: a compare_exchange_weak failed although the cell held the
\* expected value, and left a cell it would have changed as it was.
C7_Witness ==
    \E t \in Threads :
        /\ Returned(t, "compare_exchange_weak")
        /\ ret[t].kind = "Err"
        /\ ret[t].val = ret[t].a
        /\ ret[t].b # ret[t].a
        /\ NoWriteSince(t)
        /\ cell = ret[t].a

\* ------------------------------------------------------------------- C8
\* C8: no operation blocks. Only a fetch_update whose closure returned Some
\* is ever between two of its steps, every other call being one step of its
\* thread; under the fairness of SpecFair such a fetch_update returns; and a
\* round of its loop fails (other than spuriously) only when a store has
\* been made since the thread last read the cell, so the failed rounds of a
\* call never outnumber the stores made by others.
C8_LockFree ==
    /\ [](\A t \in Threads :
             pc[t] = "fu" =>
                 /\ IsSome(ApplyF(frame[t].f, frame[t].prev))
                 /\ frame[t].tries < frame[t].at)
    /\ [][\A t \in Threads :
             fetch_update_retry(t) => Len(hist) > frame[t].at]_vars
    /\ \A t \in Threads : (pc[t] = "fu") ~> (pc[t] # "fu")

\* C8 witness: a fetch_update lost a round to another thread's store, went
\* round again and returned Ok.
C8_Witness ==
    \E t \in Threads :
        /\ ret[t].op = "fetch_update"
        /\ ret[t].kind = "Ok"
        /\ ret[t].tries >= 1
        /\ pc[t] = "idle"

\* ------------------------------------------------------------------- C9
\* The constructors that take an address, and null().
Ctors == {"new", "with_exposed_provenance", "without_provenance", "null"}

\* C9: a MaybeNull or AtomicMaybeNull constructed from an address a # 0 is
\* not absent and has the raw address a (addr, get_unchecked); constructed
\* from 0 or with null() it is absent: is_null is true, get is None and the
\* address is 0.
C9_Constructors ==
    /\ (plast.obj = "mn" /\ plast.op \in Ctors) =>
           IF plast.arg # 0
           THEN /\ ~MaybeNull_is_null(mn)
                /\ MaybeNull_get(mn) = Some(plast.arg)
                /\ MaybeNull_addr(mn) = plast.arg
                /\ MaybeNull_get_unchecked(mn) = plast.arg
           ELSE /\ MaybeNull_is_null(mn)
                /\ MaybeNull_get(mn) = None
                /\ MaybeNull_addr(mn) = 0
    /\ (plast.obj = "am" /\ plast.op \in Ctors) =>
           IF plast.arg # 0
           THEN /\ IsNullResult(AtomicPtr_load(am)).kind = "False"
                /\ GetResult(AtomicPtr_load(am)).kind = "Some"
                /\ GetResult(AtomicPtr_load(am)).val = plast.arg
                /\ AtomicPtr_load(am) = plast.arg
           ELSE /\ IsNullResult(AtomicPtr_load(am)).kind = "True"
                /\ GetResult(AtomicPtr_load(am)).kind = "None"
                /\ AtomicPtr_load(am) = 0

\* C9 witness: a MaybeNull has just been constructed from the highest
\* address, next to an AtomicMaybeNull constructed from a non-zero address.
C9_Witness ==
    /\ plast.obj = "mn"
    /\ plast.op = "without_provenance"
    /\ plast.arg = Word - 1
    /\ MaybeNull_addr(mn) = Word - 1
    /\ ~MaybeNull_is_null(mn)
    /\ am # 0

\* ------------------------------------------------------------------ C10
\* C10: after any sequence of constructions, set and nullify the queries
\* agree: is_null iff get is None iff addr is 0 iff get_unchecked is null;
\* after set(h) the value is not absent and get is Some(h); after nullify it
\* is absent. The same for the AtomicMaybeNull of one owner, whose reads
\* return what these queries say.
C10_QueriesAgree ==
    /\ MaybeNull_is_null(mn) <=> (MaybeNull_get(mn) = None)
    /\ MaybeNull_is_null(mn) <=> (MaybeNull_addr(mn) = 0)
    /\ MaybeNull_is_null(mn) <=> (MaybeNull_get_unchecked(mn) = null_mut)
    /\ (plast.obj = "mn" /\ plast.op = "set") =>
           /\ ~MaybeNull_is_null(mn)
           /\ MaybeNull_get(mn) = Some(plast.arg)
    /\ (plast.obj = "mn" /\ plast.op = "nullify") => MaybeNull_is_null(mn)
    /\ (IsNullResult(AtomicPtr_load(am)).kind = "True")
           <=> (GetResult(AtomicPtr_load(am)).kind = "None")
    /\ (IsNullResult(AtomicPtr_load(am)).kind = "True")
           <=> (AtomicPtr_load(am) = null_mut)
    /\ (plast.obj = "am" /\ plast.op = "set" /\ plast.kind # "Panic") =>
           /\ IsNullResult(AtomicPtr_load(am)).kind = "False"
           /\ GetResult(AtomicPtr_load(am)).kind = "Some"
           /\ GetResult(AtomicPtr_load(am)).val = plast.arg
    /\ (plast.obj = "am" /\ plast.op = "nullify" /\ plast.kind # "Panic") =>
           IsNullResult(AtomicPtr_load(am)).kind = "True"
    /\ (plast.obj = "am" /\ plast.op = "is_null" /\ plast.kind # "Panic") =>
           ((plast.kind = "True") <=> (am = 0))
    /\ (plast.obj = "am" /\ plast.op = "get" /\ plast.kind # "Panic") =>
           IF am = 0 THEN plast.kind = "None"
                     ELSE plast.kind = "Some" /\ plast.val = am
    /\ (plast.obj = "am" /\ plast.op = "get_unchecked" /\ plast.kind # "Panic") =>
           plast.val = am

\* C10 witness: set(h) has just been called on a MaybeNull that now gives
\* Some(h), while the owner's AtomicMaybeNull was set to a pointer too.
C10_Witness ==
    /\ plast.obj = "mn"
    /\ plast.op = "set"
    /\ MaybeNull_get(mn) = Some(plast.arg)
    /\ MaybeNull_addr(mn) = plast.arg
    /\ am # 0

\* ------------------------------------------------------------------ C11
\* The owner has just repeated its call: the same operation with the same
\* argument on the same object as the call before, neither panicking.
Repeated(obj, op) ==
    plast.obj = obj /\ plast.op = op /\ plast.rep /\ plast.kind # "Panic"

\* C11: the setters are idempotent. After nullify called twice in a row the
\* value is absent and is what it was after the first call; after set(h)
\* called twice with the same non-null h the address is h's and the value is
\* what it was after the first call. For MaybeNull and for the
\* AtomicMaybeNull of one owner.
C11_Idempotent ==
    /\ Repeated("mn", "nullify") =>
           /\ MaybeNull_is_null(mn)
           /\ mn = plast.was
    /\ Repeated("mn", "set") =>
           /\ MaybeNull_addr(mn) = plast.arg
           /\ ~MaybeNull_is_null(mn)
           /\ mn = plast.was
    /\ Repeated("am", "nullify") =>
           /\ AtomicPtr_load(am) = null_mut
           /\ am = plast.was
    /\ Repeated("am", "set") =>
           /\ AtomicPtr_load(am) = plast.arg
           /\ am = plast.was

\* C11 witness: set(h) has been called twice in a row on a MaybeNull next to
\* an AtomicMaybeNull that holds a pointer, and the address is h's.
C11_Witness ==
    /\ Repeated("mn", "set")
    /\ plast.arg # 0
    /\ MaybeNull_addr(mn) = plast.arg
    /\ am # 0

\* ------------------------------------------------------------------ C12
\* The owner has just cast its MaybeNull.
Cast == plast.obj = "mn" /\ plast.op = "cast"
\* The cast followed a cast and went back to the type before that one.
CastBack == Cast /\ plast.rep /\ plast.origty = plast.ty

\* C12: p.cast::<U>() has the address of p and is absent iff p is, and
\* p.cast::<U>().cast::<T>() has the raw address of p.
C12_CastRoundTrip ==
    /\ Cast =>
           /\ MaybeNull_addr(mn) = MaybeNull_addr(plast.was)
           /\ MaybeNull_get_unchecked(mn) = MaybeNull_get_unchecked(plast.was)
           /\ MaybeNull_is_null(mn) <=> MaybeNull_is_null(plast.was)
    /\ CastBack =>
           /\ MaybeNull_addr(mn) = MaybeNull_addr(plast.orig)
           /\ MaybeNull_get_unchecked(mn) = MaybeNull_get_unchecked(plast.orig)
           /\ MaybeNull_is_null(mn) <=> MaybeNull_is_null(plast.orig)

\* C12 witness: a MaybeNull<T> at the highest (odd) address has been cast to
\* another type U and back to T.
C12_Witness ==
    /\ CastBack
    /\ plast.wasty # plast.ty
    /\ MaybeNull_addr(plast.orig) = Word - 1
    /\ MaybeNull_addr(mn) = Word - 1

\* ------------------------------------------------------------------ C13
\* The owner has just called op on its MaybeNull, and the call returned.
Called(op) == plast.obj = "mn" /\ plast.op = op /\ plast.kind # "Panic"
\* The address before the call, the count in bytes and in elements of T.
AddrBefore == MaybeNull_addr(plast.was)
Bytes == plast.arg
Scaled == plast.arg * size_of(plast.wasty)

\* C13: the wrapping operations return, and the address of the result is
\* the address of p plus (minus) the count modulo 2^w, the count being in
\* bytes for wrapping_byte_add / wrapping_byte_sub and in elements of the
\* size of T for wrapping_add / wrapping_sub.
C13_Wrapping ==
    /\ (plast.obj = "mn" /\ plast.op \in {"wrapping_add", "wrapping_byte_add",
                                           "wrapping_sub", "wrapping_byte_sub"})
           => plast.kind = "Unit" /\ MaybeNull_addr(mn) \in Addrs
    /\ Called("wrapping_byte_add") =>
           MaybeNull_addr(mn) = (AddrBefore + Bytes) % Word
    /\ Called("wrapping_byte_sub") =>
           (MaybeNull_addr(mn) + Bytes) % Word = AddrBefore
    /\ Called("wrapping_add") =>
           MaybeNull_addr(mn) = (AddrBefore + Scaled) % Word
    /\ Called("wrapping_sub") =>
           (MaybeNull_addr(mn) + Scaled) % Word = AddrBefore

\* C13 witness: wrapping_add on a MaybeNull<u16> whose sum overflowed the
\* address range and wrapped to a non-zero address.
C13_Witness ==
    /\ Called("wrapping_add")
    /\ size_of(plast.wasty) = 2
    /\ AddrBefore + Scaled >= Word
    /\ MaybeNull_addr(mn) # 0
    /\ MaybeNull_addr(mn) = (AddrBefore + Scaled) % Word

\* ------------------------------------------------------------------ C14
\* The other operand q of the owner's comparison, and the two addresses.
Other == MaybeNull_new(plast.arg)
AddrP == MaybeNull_addr(mn)
AddrQ == MaybeNull_addr(Other)

\* C14: p == q iff addr(p) = addr(q), and p.cmp(q) is the comparison of
\* addr(p) with addr(q), absent counting as address 0: the absent value is
\* below every non-absent one and equal to itself.
C14_EqOrdByAddress ==
    /\ Called("eq") => ((plast.kind = "True") <=> (AddrP = AddrQ))
    /\ Called("cmp") =>
           /\ (plast.kind = "Less") <=> (AddrP < AddrQ)
           /\ (plast.kind = "Equal") <=> (AddrP = AddrQ)
           /\ (plast.kind = "Greater") <=> (AddrP > AddrQ)
           /\ (MaybeNull_is_null(mn) /\ ~MaybeNull_is_null(Other)) =>
                  plast.kind = "Less"
           /\ (MaybeNull_is_null(mn) /\ MaybeNull_is_null(Other)) =>
                  plast.kind = "Equal"
           /\ MaybeNull_partial_cmp(mn, Other) = Some(plast.kind)

\* C14 witness: the absent value has been compared with a non-absent one
\* and found Less.
C14_Witness ==
    /\ Called("cmp")
    /\ MaybeNull_is_null(mn)
    /\ AddrQ = Word - 1
    /\ plast.kind = "Less"

\* ------------------------------------------------------------------ C18
\* The address the arithmetic of the owner's last call arrives at.
Arrives ==
    CASE plast.op = "wrapping_byte_add" -> (AddrBefore + Bytes) % Word
      [] plast.op = "wrapping_add"      -> (AddrBefore + Scaled) % Word
      [] plast.op = "wrapping_byte_sub" ->
             CHOOSE a \in Addrs : (a + Bytes) % Word = AddrBefore
      [] plast.op = "wrapping_sub"      ->
             CHOOSE a \in Addrs : (a + Scaled) % Word = AddrBefore
\* The owner has just called one of the wrapping operations.
Arithmetic ==
    \/ Called("wrapping_byte_add") \/ Called("wrapping_add")
    \/ Called("wrapping_byte_sub") \/ Called("wrapping_sub")

\* C18: the result of a wrapping operation is absent iff the address it
\* arrives at is 0, whether or not the operand was absent: an absent pointer
\* advanced by n # 0 bytes is the non-absent pointer of address n, and a
\* non-absent pointer whose address wraps to 0 is absent.
C18_AbsenceByAddress ==
    /\ Arithmetic =>
           /\ MaybeNull_is_null(mn) <=> (Arrives = 0)
           /\ ~MaybeNull_is_null(mn) => MaybeNull_get(mn) = Some(Arrives)
    /\ (Called("wrapping_byte_add") /\ MaybeNull_is_null(plast.was)
           /\ Bytes # 0) =>
           /\ ~MaybeNull_is_null(mn)
           /\ MaybeNull_get(mn) = Some(Bytes)
    /\ (Arithmetic /\ ~MaybeNull_is_null(plast.was) /\ Arrives = 0) =>
           /\ MaybeNull_is_null(mn)
           /\ MaybeNull_get(mn) = None

\* C18 witness: an absent pointer advanced by a non-zero byte count has
\* become a non-absent pointer.
C18_Witness ==
    /\ Called("wrapping_byte_add")
    /\ MaybeNull_is_null(plast.was)
    /\ Bytes # 0
    /\ MaybeNull_get(mn) = Some(Bytes)

\* A non-absent pointer has wrapped to address 0 and become absent.
C18_WrapsToAbsent ==
    /\ Arithmetic
    /\ ~MaybeNull_is_null(plast.was)
    /\ Arrives = 0
    /\ MaybeNull_is_null(mn)

\* ------------------------------------------------------------------ C15
\* The orderings the doc comments of set, nullify, get and get_unchecked list.
DocOrderings == {"SeqCst", "Release", "Relaxed"}

\* The stores complete with each of them: the store is performed.
C15_StoresComplete ==
    [][\A t \in Threads, o \in DocOrderings :
          /\ \A v \in NonNullPtrs :
                 Atomic_set(t, v, o) =>
                     ret'[t].kind = "Unit" /\ cell' = v /\ Last(hist') = v
          /\ Atomic_nullify(t, o) =>
                 ret'[t].kind = "Unit" /\ cell' = 0 /\ Last(hist') = 0]_vars

\* C15: called with SeqCst, Release or Relaxed, each of set, nullify, get
\* and get_unchecked completes normally: the store is performed, the load
\* returns the cell's value.
C15_DocOrderings ==
    [][\A t \in Threads, o \in DocOrderings :
          /\ \A v \in NonNullPtrs :
                 Atomic_set(t, v, o) => ret'[t].kind = "Unit" /\ cell' = v
          /\ Atomic_nullify(t, o) => ret'[t].kind = "Unit" /\ cell' = 0
          /\ Atomic_get(t, o) =>
                 /\ ret'[t].kind \in {"Some", "None"}
                 /\ (ret'[t].kind = "None") <=> (cell = 0)
                 /\ ret'[t].kind = "Some" => ret'[t].val = cell
          /\ Atomic_get_unchecked(t, o) =>
                 ret'[t].kind = "Raw" /\ ret'[t].val = cell]_vars

\* ------------------------------------------------------------------ C16
\* The fetch_update of thread t returned Ok.
Updated(t) == Returned(t, "fetch_update") /\ ret[t].kind = "Ok"
\* Every thread made one call, a fetch_update advancing the address by one,
\* and all of them returned Ok.
AllAdvanced ==
    /\ nops = NThreads
    /\ \A t \in Threads : Updated(t) /\ ret[t].f = "inc"

\* C16: a fetch_update that returns Ok(v) found v in the cell at the instant
\* of its install and installed f(v) for that v, whatever was stored between
\* its first read and its exchange; so when each of the N threads has
\* advanced the address by one, the cell is N steps from its start.
C16_NoLostUpdate ==
    /\ \A t \in Threads :
           Updated(t) =>
               /\ ret[t].val = ret[t].pre
               /\ ret[t].at >= 2
               /\ hist[ret[t].at - 1] = ret[t].val
               /\ IsSome(ApplyF(ret[t].f, ret[t].val))
               /\ hist[ret[t].at] = ApplyF(ret[t].f, ret[t].val)[1]
               /\ NoWriteSince(t) => cell = ApplyF(ret[t].f, ret[t].val)[1]
    /\ AllAdvanced =>
           /\ Len(hist) = NThreads + 1
           /\ cell = (hist[1] + NThreads) % Word
           /\ \A t \in Threads, u \in Threads :
                  t # u => ret[t].val # ret[u].val

\* C16 witness: every thread advanced the address by one, one of them after
\* losing a round to a store made since its first read.
C16_Witness ==
    /\ AllAdvanced
    /\ \E t \in Threads : ret[t].tries >= 1
    /\ cell = (hist[1] + NThreads) % Word

\* ------------------------------------------------------------------ C17
\* The three queries of the cell.
Queries == {"is_null", "get", "get_unchecked"}
\* A step of thread t that is a call of one of them.
QueryStep(t) ==
    \E o \in Orderings :
        Atomic_is_null(t, o) \/ Atomic_get(t, o) \/ Atomic_get_unchecked(t, o)

\* C17: is_null, get and get_unchecked read the cell once and do not write
\* it. What each returns is derived from the one value the cell held at the
\* instant of the call, which is the value last stored before it, and the
\* step of the call leaves the cell and its history as they were.
C17_OneReadNoWrite ==
    /\ [](\A t \in Threads :
             (ret[t].op \in Queries /\ ret[t].kind # "Panic") =>
                 /\ hist[ret[t].at] = ret[t].pre
                 /\ ret[t].op = "is_null" =>
                        /\ ret[t].kind \in {"True", "False"}
                        /\ (ret[t].kind = "True") <=> (ret[t].pre = 0)
                 /\ ret[t].op = "get" =>
                        /\ ret[t].kind \in {"Some", "None"}
                        /\ (ret[t].kind = "None") <=> (ret[t].pre = 0)
                        /\ ret[t].kind = "Some" => ret[t].val = ret[t].pre
                 /\ ret[t].op = "get_unchecked" =>
                        ret[t].kind = "Raw" /\ ret[t].val = ret[t].pre)
    /\ [][\A t \in Threads :
             QueryStep(t) => cell' = cell /\ hist' = hist]_vars

\* C17 witness: a get returned the pointer the cell held, and another
\* thread has since stored a different one.
C17_Witness ==
    \E t \in Threads :
        /\ ret[t].op = "get"
        /\ ret[t].kind = "Some"
        /\ ret[t].val = hist[ret[t].at]
        /\ ret[t].at < Len(hist)
        /\ cell # ret[t].val

\* ------------------------------------------------------------------ C19
\* A step of thread u that is a set, nullify, swap or compare-exchange on
\* the shared cell, or the exchange of a fetch_update, and returns. The
\* state keeps no ordering, so SeqCst stands for every ordering the call
\* returns with.
SourceWrite(u) ==
    \/ \E v \in NonNullPtrs : Atomic_set(u, v, "SeqCst")
    \/ Atomic_nullify(u, "SeqCst")
    \/ \E p \in Ptrs : Atomic_swap(u, p, "SeqCst")
    \/ \E c \in Ptrs, n \in Ptrs :
           \/ Atomic_compare_exchange(u, c, n, "SeqCst", "SeqCst")
           \/ Atomic_compare_exchange_weak(u, c, n, "SeqCst", "SeqCst")
    \/ fetch_update_ok(u)
\* A step of thread t that is a set or nullify on the cell it was handed,
\* and returns.
OwnWrite(t) ==
    \/ \E v \in NonNullPtrs : Own_set(t, v, "SeqCst")
    \/ Own_nullify(t, "SeqCst")

\* C19: the cell swap, compare_exchange, compare_exchange_weak and
\* fetch_update hand back is a snapshot of its own. It is constructed with
\* the value the shared cell held; a later write of the shared cell by
\* another thread leaves what the holder was handed as it is; and a write to
\* the cell handed back leaves the shared cell, its history and the cells
\* the other threads hold as they are.
C19_Snapshot ==
    [][\A t \in Threads :
          /\ (ret'[t] # ret[t] /\ ret'[t].kind \in Cells) =>
                 \/ ret'[t].val = cell /\ ret'[t].own = ret'[t].val
                 \/ OwnWrite(t)
          /\ \A u \in Threads \ {t} :
                 (Holds(t) /\ ret'[t] # ret[t]) => ~SourceWrite(u)
          /\ \/ /\ cell' = cell
                /\ hist' = hist
                /\ ret'[t].val = ret[t].val
                /\ \A u \in Threads \ {t} : ret'[u] = ret[u]
             \/ ~OwnWrite(t)]_vars

\* C19 witness: a thread holds the cell a swap handed it, constructed with
\* the pointer the swap replaced, and the other thread has since stored a
\* different pointer in the shared cell.
C19_Witness ==
    \E t \in Threads :
        /\ Returned(t, "swap")
        /\ ret[t].val # 0
        /\ ret[t].own = ret[t].val
        /\ ret[t].at < Len(hist)
        /\ cell # ret[t].own
        /\ cell # ret[t].a

\* A thread has stored to the cell a compare_exchange handed it, and the
\* shared cell holds what the compare_exchange left there.
C19_OwnWritten ==
    \E t \in Threads :
        /\ Returned(t, "compare_exchange")
        /\ ret[t].kind = "Ok"
        /\ ret[t].own # ret[t].val
        /\ NoWriteSince(t)
        /\ cell = ret[t].b
        /\ cell # ret[t].own

====
